---- MODULE Spec2Model ----
(***************************************************************************)
(* Model of SCA_dijkstra.py: create_grid_graph builds an undirected        *)
(* weighted networkx graph, compute_shortest_paths asks networkx for the   *)
(* Dijkstra route of every node to target_node, save_to_yaml exports the   *)
(* table and visualize_graph renders the graph; main runs them in order.   *)
(*                                                                         *)
(* Weights are kept in half units (0.5 -> 1, 1 -> 2, 2 -> 4) so that every *)
(* distance is an integer; the three tiers are dyadic fractions, so the    *)
(* program's float sums are exact and the scaling loses nothing.           *)
(* A route of None is modelled as the empty sequence (a found route has at *)
(* least two nodes).  Node coordinates are used by the renderer only; the  *)
(* model keeps the keys of node_positions and drops the coordinates.       *)
(***************************************************************************)
EXTENDS Integers, Sequences, FiniteSets, TLC

VARIABLES node_positions, edges_with_weights, target_node,
          G, idx, paths_info, pc, yaml_file, render, console,
          first_table, other_node, calls, exc

vars == <<node_positions, edges_with_weights, target_node,
          G, idx, paths_info, pc, yaml_file, render, console,
          first_table, other_node, calls, exc>>

(* ---------------------------------------------------------------- bounds *)
NumNodes == 3
MaxEdges == 3

(* ------------------------------------------------------ program constants *)
Short == 1
Medium == 2
Long == 4
Inf == 1000000
RefNumNodes == 12

Tiers == {Short, Medium, Long}
BadWeights == {0, 0 - Long}

MaxOf(a, b) == IF a > b THEN a ELSE b
NodeIds == 0 .. MaxOf(RefNumNodes, NumNodes)

(* keys of node_positions, in insertion order *)
RefNodePositions == [i \in 1 .. RefNumNodes |-> i - 1]

RefEdgesAlt8 ==
  << <<0, 1, Short>>, <<0, 3, Medium>>, <<1, 2, Medium>>, <<2, 3, Short>>,
     <<2, 5, Medium>>, <<3, 4, Medium>>, <<4, 5, Short>>,
     <<7, 6, Long>>, <<7, 8, Medium>>, <<6, 11, Medium>>, <<8, 9, Medium>>,
     <<8, 11, Long>>, <<9, 10, Long>>, <<10, 11, Medium>>,
     <<5, 6, Long>>, <<2, 11, Medium>>, <<1, 10, Long>> >>

RefEdgesAlt9 ==
  << <<0, 1, Short>>, <<0, 3, Medium>>, <<1, 2, Medium>>, <<2, 3, Medium>>,
     <<2, 5, Medium>>, <<3, 4, Medium>>, <<4, 5, Short>>,
     <<7, 6, Long>>, <<7, 8, Medium>>, <<6, 11, Medium>>, <<8, 9, Medium>>,
     <<8, 11, Long>>, <<9, 10, Long>>, <<10, 11, Medium>>,
     <<5, 6, Long>>, <<2, 11, Long>>, <<1, 10, Long>> >>

RefEdgesWithWeights ==
  << <<0, 1, Short>>, <<0, 3, Medium>>, <<1, 2, Medium>>, <<2, 3, Short>>,
     <<2, 5, Medium>>, <<3, 4, Medium>>, <<4, 5, Short>>,
     <<7, 6, Long>>, <<7, 8, Medium>>, <<6, 11, Medium>>, <<8, 9, Medium>>,
     <<8, 11, Long>>, <<9, 10, Long>>, <<10, 11, Medium>>,
     <<5, 6, Long>>, <<2, 11, Long>>, <<1, 10, Long>> >>

(* ------------------------------------------------------------ networkx G *)
Range(s) == {s[i] : i \in 1 .. Len(s)}

EmptyGraph == [nodes |-> <<>>, adj |-> [n \in NodeIds |-> <<>>]]

HasNode(g, n) == n \in Range(g.nodes)

(* G.add_node(node, pos=pos) *)
AddNode(g, n) ==
  IF HasNode(g, n) THEN g ELSE [g EXCEPT !.nodes = Append(@, n)]

HasNbr(row, u) == \E k \in 1 .. Len(row) : row[k][1] = u

(* self._adj[v][u] = datadict: a known neighbour keeps its place *)
SetNbr(row, u, w) ==
  IF HasNbr(row, u)
    THEN [k \in 1 .. Len(row) |-> IF row[k][1] = u THEN <<u, w>> ELSE row[k]]
    ELSE Append(row, <<u, w>>)

AddEdgeDirected(g, u, v, w) ==
  LET g2 == AddNode(AddNode(g, u), v)
  IN  [g2 EXCEPT !.adj[u] = SetNbr(@, v, w)]

AddEdgeStrict(g, u, v, w) ==
  IF HasNode(g, u) /\ HasNode(g, v)
    THEN [g EXCEPT !.adj[u] = SetNbr(@, v, w), !.adj[v] = SetNbr(@, u, w)]
    ELSE g

AddEdgePositive(g, u, v, w) ==
  LET g2 == AddNode(AddNode(g, u), v)
  IN  IF w > 0
        THEN [g2 EXCEPT !.adj[u] = SetNbr(@, v, w), !.adj[v] = SetNbr(@, u, w)]
        ELSE g2

(* G.add_edge(node1, node2, weight=weight): missing endpoints are added as *)
(* nodes, any weight is stored, both adjacency rows are written.           *)
AddEdge(g, u, v, w) ==
  LET g2 == AddNode(AddNode(g, u), v)
      g3 == [g2 EXCEPT !.adj[u] = SetNbr(@, v, w)]
  IN  [g3 EXCEPT !.adj[v] = SetNbr(@, u, w)]

(* ------------------------------------------- networkx Dijkstra (library) *)
(* nx.dijkstra_path / nx.dijkstra_path_length both run networkx's          *)
(* _dijkstra_multisource from the source with target given: a heap of      *)
(* (distance, counter, node), final distances in dist, tentative ones in   *)
(* seen, and the route to a node rewritten on every strict improvement.    *)

Before(e, f) == e[1] < f[1] \/ (e[1] = f[1] /\ e[2] < f[2])

HeapTopLast(fringe) == CHOOSE e \in fringe : \A f \in fringe : f = e \/ Before(f, e)

(* heappop: least distance, then least counter *)
HeapTop(fringe) == CHOOSE e \in fringe : \A f \in fringe : f = e \/ Before(e, f)

DijkstraStart(source) ==
  [dist |-> [n \in NodeIds |-> 0], final |-> {},
   seen |-> [n \in NodeIds |-> 0], seenSet |-> {source},
   fringe |-> {<<0, 0, source>>}, c |-> 1,
   paths |-> [n \in NodeIds |-> IF n = source THEN <<source>> ELSE <<>>],
   error |-> FALSE]

(* for u, e in G_succ[v].items(): ... *)
RECURSIVE Relax(_, _, _, _)
Relax(g, st, v, k) ==
  IF k > Len(g.adj[v]) THEN st
  ELSE LET u == g.adj[v][k][1]
           cost == g.adj[v][k][2]
           vu_dist == st.dist[v] + cost
       IN  IF u \in st.final
             THEN IF vu_dist < st.dist[u]
                    THEN [st EXCEPT !.error = TRUE]
                    ELSE Relax(g, st, v, k + 1)
             ELSE IF u \notin st.seenSet \/ vu_dist < st.seen[u]
                    THEN Relax(g,
                               [st EXCEPT !.seen[u] = vu_dist,
                                          !.seenSet = @ \cup {u},
                                          !.fringe = @ \cup {<<vu_dist, st.c, u>>},
                                          !.c = @ + 1,
                                          !.paths[u] = Append(st.paths[v], u)],
                               v, k + 1)
                    ELSE Relax(g, st, v, k + 1)

(* while fringe: ... *)
RECURSIVE DijkstraLoop(_, _, _)
DijkstraLoop(g, st, target) ==
  IF st.error \/ st.fringe = {} THEN st
  ELSE LET top == HeapTop(st.fringe)
           v == top[3]
           st1 == [st EXCEPT !.fringe = @ \ {top}]
       IN  IF v \in st.final THEN DijkstraLoop(g, st1, target)
           ELSE LET st2 == [st1 EXCEPT !.dist[v] = top[1], !.final = @ \cup {v}]
                IN  IF v = target THEN st2
                    ELSE DijkstraLoop(g, Relax(g, st2, v, 1), target)

DijkstraStrictTarget(g, source, target) ==
  IF ~HasNode(g, source) \/ ~HasNode(g, target)
    THEN [status |-> "NodeNotFound", path |-> <<>>, length |-> 0]
    ELSE LET st == DijkstraLoop(g, DijkstraStart(source), target)
         IN  IF st.error THEN [status |-> "ValueError", path |-> <<>>, length |-> 0]
             ELSE IF target \in st.final
                    THEN [status |-> "ok", path |-> st.paths[target],
                          length |-> st.dist[target]]
                    ELSE [status |-> "NetworkXNoPath", path |-> <<>>, length |-> 0]

(* what the two calls of lines 103-104 give: the route and its length, or  *)
(* the exception raised.  Only the source is checked for membership; a     *)
(* target that is never reached (absent from G included) is NetworkXNoPath.*)
Dijkstra(g, source, target) ==
  IF ~HasNode(g, source)
    THEN [status |-> "NodeNotFound", path |-> <<>>, length |-> 0]
    ELSE LET st == DijkstraLoop(g, DijkstraStart(source), target)
         IN  IF st.error THEN [status |-> "ValueError", path |-> <<>>, length |-> 0]
             ELSE IF target \in st.final
                    THEN [status |-> "ok", path |-> st.paths[target],
                          length |-> st.dist[target]]
                    ELSE [status |-> "NetworkXNoPath", path |-> <<>>, length |-> 0]

(* ------------------------------------------------------------ formatting *)
Digit == <<"0", "1", "2", "3", "4", "5", "6", "7", "8", "9">>

(* str(n) for a node id *)
RECURSIVE Str(_)
Str(n) == IF n < 10 THEN Digit[n + 1] ELSE Str(n \div 10) \o Digit[(n % 10) + 1]

(* ' -> '.join(map(str, path)) *)
RECURSIVE Join(_, _)
Join(path, k) ==
  IF k > Len(path) THEN ""
  ELSE IF k = Len(path) THEN Str(path[k])
  ELSE Str(path[k]) \o " -> " \o Join(path, k + 1)

(* ------------------------------------------------ compute_shortest_paths *)
EntryNoHandler(r, source, target) ==
  IF r.status = "ok"
    THEN [raised |-> FALSE, exc |-> "none",
          entry |-> [start |-> source, goal |-> target, path |-> r.path,
                     total_weight |-> r.length,
                     path_description |-> Join(r.path, 1)]]
    ELSE [raised |-> TRUE, exc |-> r.status, entry |-> <<>>]

(* the body of the for loop: try ... except nx.NetworkXNoPath *)
Entry(r, source, target) ==
  IF r.status = "ok"
    THEN [raised |-> FALSE, exc |-> "none",
          entry |-> [start |-> source, goal |-> target, path |-> r.path,
                     total_weight |-> r.length,
                     path_description |-> Join(r.path, 1)]]
  ELSE IF r.status = "NetworkXNoPath"
    THEN [raised |-> FALSE, exc |-> "none",
          entry |-> [start |-> source, goal |-> target, path |-> <<>>,
                     total_weight |-> Inf,
                     path_description |-> "No path found"]]
  ELSE [raised |-> TRUE, exc |-> r.status, entry |-> <<>>]

(* --------------------------------------------------------- save_to_yaml *)
KeyOf(n) == "from_node_" \o Str(n)

YamlData(info) ==
  [graph_info |->
     [description |-> "Grid graph with Safety Charging Area as node 0",
      weight_rules |-> [long_distance |-> Long, medium_distance |-> Medium,
                        short_distance |-> Short]],
   shortest_paths |->
     [key \in {KeyOf(n) : n \in DOMAIN info} |->
        LET n == CHOOSE m \in DOMAIN info : KeyOf(m) = key
        IN  [start_node |-> info[n].start, goal_node |-> info[n].goal,
             route |-> info[n].path, total_distance |-> info[n].total_weight,
             description |-> info[n].path_description]]]

NoFile == [graph_info |-> <<>>, shortest_paths |-> <<>>]

(* ------------------------------------------------------- visualize_graph *)
(* the drawing calls look up node_positions for every node of G and for    *)
(* the labels 0 .. 11; a missing key raises inside visualize_graph         *)
CanRender(g, keys) ==
  /\ Range(g.nodes) \subseteq Range(keys)
  /\ (0 .. RefNumNodes - 1) \subseteq Range(keys)

(* ---------------------------------------------------------------- inputs *)
SmallNodePositions == [i \in 1 .. NumNodes |-> i - 1]

Pairs(ids) == {p \in ids \X ids : p[1] < p[2]}

EdgeChoices(ids, weights) ==
  UNION {[P -> weights] : P \in {Q \in SUBSET Pairs(ids) : Cardinality(Q) <= MaxEdges}}

First(P) == CHOOSE p \in P : \A q \in P : q = p \/ p[1] < q[1] \/ (p[1] = q[1] /\ p[2] < q[2])

(* the edge list that names the chosen pairs in increasing order *)
RECURSIVE EdgeList(_, _)
EdgeList(f, P) ==
  IF P = {} THEN <<>>
  ELSE LET p == First(P)
       IN  <<<<p[1], p[2], f[p]>>>> \o EdgeList(f, P \ {p})

SmallEdgeLists == {EdgeList(f, DOMAIN f) : f \in EdgeChoices(0 .. NumNodes - 1, Tiers)}

(* well-formed lists of fewer than MaxEdges edges followed by one edge that *)
(* names the id NumNodes (not a key of node_positions) or has a weight <= 0 *)
MalformedEdges ==
  {<<u, NumNodes, w>> : u \in 0 .. NumNodes - 1, w \in Tiers}
    \cup {<<NumNodes, u, w>> : u \in 0 .. NumNodes - 1, w \in Tiers}
    \cup {<<p[1], p[2], w>> : p \in Pairs(0 .. NumNodes - 1), w \in BadWeights}

MalformedEdgeLists ==
  {Append(l, e) : l \in {m \in SmallEdgeLists : Len(m) < MaxEdges}, e \in MalformedEdges}

IsRef == node_positions = RefNodePositions /\ edges_with_weights = RefEdgesWithWeights

(* --------------------------------------------------------------- actions *)
InitCommon ==
  /\ G = EmptyGraph
  /\ idx = 1
  /\ paths_info = <<>>
  /\ pc = "start"
  /\ yaml_file = NoFile
  /\ render = "none"
  /\ console = <<>>
  /\ first_table = <<>>
  /\ calls = 1
  /\ exc = "none"

Init ==
  /\ \/ /\ node_positions = RefNodePositions
        /\ edges_with_weights = RefEdgesWithWeights
        /\ target_node \in 0 .. RefNumNodes
     \/ /\ node_positions = SmallNodePositions
        /\ edges_with_weights \in SmallEdgeLists
        /\ target_node \in 0 .. NumNodes
  /\ other_node = target_node
  /\ InitCommon

(* create_grid_graph: for node, pos in node_positions.items(): G.add_node *)
CreateAddNode ==
  /\ pc = "start"
  /\ idx <= Len(node_positions)
  /\ G' = AddNode(G, node_positions[idx])
  /\ idx' = idx + 1
  /\ UNCHANGED <<node_positions, edges_with_weights, target_node, paths_info,
                 pc, yaml_file, render, console, first_table, other_node, calls, exc>>

CreateNodesDone ==
  /\ pc = "start"
  /\ idx > Len(node_positions)
  /\ pc' = "add_edges"
  /\ idx' = 1
  /\ UNCHANGED <<node_positions, edges_with_weights, target_node, G, paths_info,
                 yaml_file, render, console, first_table, other_node, calls, exc>>

(* create_grid_graph: for node1, node2, weight in edges_with_weights *)
CreateAddEdge ==
  /\ pc = "add_edges"
  /\ idx <= Len(edges_with_weights)
  /\ LET e == edges_with_weights[idx]
     IN  G' = AddEdge(G, e[1], e[2], e[3])
  /\ idx' = idx + 1
  /\ UNCHANGED <<node_positions, edges_with_weights, target_node, paths_info,
                 pc, yaml_file, render, console, first_table, other_node, calls, exc>>

(* return G, node_positions; main prints the counts and the edge list and  *)
(* calls compute_shortest_paths(G, target_node)                            *)
CreateReturn ==
  /\ pc = "add_edges"
  /\ idx > Len(edges_with_weights)
  /\ pc' = "compute"
  /\ idx' = 1
  /\ paths_info' = <<>>
  /\ console' = Append(console, "graph")
  /\ UNCHANGED <<node_positions, edges_with_weights, target_node, G, yaml_file,
                 render, first_table, other_node, calls, exc>>

ComputeIterNoSkip ==
  /\ pc = "compute"
  /\ idx <= Len(G.nodes)
  /\ LET source_node == G.nodes[idx]
         r == Entry(Dijkstra(G, source_node, target_node), source_node, target_node)
     IN  IF r.raised
           THEN /\ pc' = "aborted"
                /\ exc' = r.exc
                /\ console' = Append(console, "Traceback")
                /\ UNCHANGED <<paths_info, idx>>
           ELSE /\ paths_info' = (source_node :> r.entry) @@ paths_info
                /\ idx' = idx + 1
                /\ UNCHANGED <<pc, console, exc>>
  /\ UNCHANGED <<node_positions, edges_with_weights, target_node, G, yaml_file,
                 render, first_table, other_node, calls>>

(* one iteration of: for source_node in G.nodes() *)
ComputeIter ==
  /\ pc = "compute"
  /\ idx <= Len(G.nodes)
  /\ LET source_node == G.nodes[idx]
         r == Entry(Dijkstra(G, source_node, target_node), source_node, target_node)
     IN  IF source_node = target_node
           THEN /\ idx' = idx + 1
                /\ UNCHANGED <<paths_info, pc, console, exc>>
           ELSE IF r.raised
             THEN /\ pc' = "aborted"
                  /\ exc' = r.exc
                  /\ console' = Append(console, "Traceback")
                  /\ UNCHANGED <<paths_info, idx>>
             ELSE /\ paths_info' = (source_node :> r.entry) @@ paths_info
                  /\ idx' = idx + 1
                  /\ UNCHANGED <<pc, console, exc>>
  /\ UNCHANGED <<node_positions, edges_with_weights, target_node, G, yaml_file,
                 render, first_table, other_node, calls>>

(* return paths_info *)
ComputeReturn ==
  /\ pc = "compute"
  /\ idx > Len(G.nodes)
  /\ pc' = "returned"
  /\ UNCHANGED <<node_positions, edges_with_weights, target_node, G, idx,
                 paths_info, yaml_file, render, console, first_table,
                 other_node, calls, exc>>

(* main, step [4]: print the table *)
ShowResults ==
  /\ pc = "returned"
  /\ console' = Append(console, "results")
  /\ pc' = "save"
  /\ UNCHANGED <<node_positions, edges_with_weights, target_node, G, idx,
                 paths_info, yaml_file, render, first_table, other_node, calls, exc>>

(* save_to_yaml(paths_info, 'shortest_paths.yaml'), called by main outside  *)
(* any try: open() or yaml.dump may raise, and the exception leaves main    *)
SaveToYaml ==
  /\ pc = "save"
  /\ \/ /\ yaml_file' = YamlData(paths_info)
        /\ console' = Append(console, "saved")
        /\ pc' = "visualize"
        /\ exc' = exc
     \/ /\ yaml_file' = NoFile
        /\ console' = Append(console, "Traceback")
        /\ pc' = "aborted"
        /\ exc' = "OSError"
  /\ UNCHANGED <<node_positions, edges_with_weights, target_node, G, idx,
                 paths_info, render, first_table, other_node, calls>>

VisualizeNoCatch ==
  /\ pc = "visualize"
  /\ \/ /\ CanRender(G, node_positions)
        /\ render' = "ok"
        /\ console' = Append(console, "rendered")
        /\ pc' = "complete"
     \/ /\ render' = "failed"
        /\ console' = Append(console, "Traceback")
        /\ pc' = "aborted"
  /\ exc' = IF render' = "failed" THEN "Exception" ELSE exc
  /\ UNCHANGED <<node_positions, edges_with_weights, target_node, G, idx,
                 paths_info, yaml_file, first_table, other_node, calls>>

(* try: visualize_graph(...) except Exception as e: print(...) *)
Visualize ==
  /\ pc = "visualize"
  /\ \/ /\ CanRender(G, node_positions)
        /\ render' = "ok"
        /\ console' = Append(console, "rendered")
     \/ /\ render' = "failed"
        /\ console' = Append(console, "render error")
  /\ pc' = "complete"
  /\ UNCHANGED <<node_positions, edges_with_weights, target_node, G, idx,
                 paths_info, yaml_file, first_table, other_node, calls, exc>>

(* print("完了!") *)
Complete ==
  /\ pc = "complete"
  /\ console' = Append(console, "done")
  /\ pc' = "done"
  /\ UNCHANGED <<node_positions, edges_with_weights, target_node, G, idx,
                 paths_info, yaml_file, render, first_table, other_node, calls, exc>>

Next ==
  \/ CreateAddNode
  \/ CreateNodesDone
  \/ CreateAddEdge
  \/ CreateReturn
  \/ ComputeIter
  \/ ComputeReturn
  \/ ShowResults
  \/ SaveToYaml
  \/ Visualize
  \/ Complete

Spec == Init /\ [][Next]_vars

(* the pipeline started on an edge list with one malformed edge *)
BuildInit ==
  /\ node_positions = SmallNodePositions
  /\ edges_with_weights \in MalformedEdgeLists
  /\ target_node = 0
  /\ other_node = target_node
  /\ InitCommon

SpecBuild == BuildInit /\ [][Next]_vars

(* compute_shortest_paths called twice on one graph, the second time with   *)
(* source and destination exchanged                                         *)
SymInit ==
  /\ \/ /\ node_positions = RefNodePositions
        /\ edges_with_weights = RefEdgesWithWeights
     \/ /\ node_positions = SmallNodePositions
        /\ edges_with_weights \in SmallEdgeLists
  /\ target_node \in Range(node_positions)
  /\ other_node \in Range(node_positions)
  /\ other_node < target_node
  /\ InitCommon

SecondCall ==
  /\ pc = "returned"
  /\ calls = 1
  /\ other_node # target_node
  /\ first_table' = paths_info
  /\ target_node' = other_node
  /\ other_node' = target_node
  /\ calls' = 2
  /\ idx' = 1
  /\ paths_info' = <<>>
  /\ pc' = "compute"
  /\ UNCHANGED <<node_positions, edges_with_weights, G, yaml_file, render, console, exc>>

SymNext ==
  \/ CreateAddNode
  \/ CreateNodesDone
  \/ CreateAddEdge
  \/ CreateReturn
  \/ ComputeIter
  \/ ComputeReturn
  \/ SecondCall

SpecSym == SymInit /\ [][SymNext]_vars

(* ============================================================ properties *)
(* Routes are judged against the graph itself, not against the search:     *)
(* every simple route is enumerated and weighed edge by edge.              *)

Nodes(g) == Range(g.nodes)

Nbrs(g, n) == {g.adj[n][k][1] : k \in 1 .. Len(g.adj[n])}

EdgeWeight(g, u, v) ==
  LET k == CHOOSE j \in 1 .. Len(g.adj[u]) : g.adj[u][j][1] = v
  IN  g.adj[u][k][2]

IsRoute(g, r, n, t) ==
  /\ Len(r) >= 2
  /\ r[1] = n
  /\ r[Len(r)] = t
  /\ \A i \in 1 .. Len(r) - 1 : r[i] \in Nodes(g) /\ r[i + 1] \in Nbrs(g, r[i])

RECURSIVE RouteWeight(_, _, _)
RouteWeight(g, r, i) ==
  IF i >= Len(r) THEN 0 ELSE EdgeWeight(g, r[i], r[i + 1]) + RouteWeight(g, r, i + 1)

RECURSIVE RoutesFrom(_, _, _, _)
RoutesFrom(g, n, t, visited) ==
  IF n = t THEN {<<t>>}
  ELSE UNION {{<<n>> \o r : r \in RoutesFrom(g, m, t, visited \cup {n})} :
                m \in Nbrs(g, n) \ (visited \cup {n})}

Routes(g, n, t) == RoutesFrom(g, n, t, {})

MinRoutes(g, n, t) ==
  {r \in Routes(g, n, t) :
     \A q \in Routes(g, n, t) : RouteWeight(g, r, 1) <= RouteWeight(g, q, 1)}

AllPositive(g) ==
  \A n \in Nodes(g) : \A k \in 1 .. Len(g.adj[n]) : g.adj[n][k][2] > 0

NoPathEntry(n, t) ==
  [start |-> n, goal |-> t, path |-> <<>>, total_weight |-> Inf,
   path_description |-> "No path found"]

Returned == pc \in {"returned", "save", "visualize", "complete", "done"}

(* C1: for a graph with positive weights and a destination in it, the entry *)
(* returned for every node that can reach the destination has a route that *)
(* starts at the node, ends at the destination and follows existing edges, *)
(* a total_weight equal to the sum of the edge weights along that route,   *)
(* and no route from the node to the destination is strictly lighter.      *)
C1_ShortestRoute ==
  (pc = "returned" /\ target_node \in Nodes(G) /\ AllPositive(G)) =>
    \A n \in Nodes(G) \ {target_node} :
      Routes(G, n, target_node) # {} =>
        /\ n \in DOMAIN paths_info
        /\ IsRoute(G, paths_info[n].path, n, target_node)
        /\ paths_info[n].total_weight = RouteWeight(G, paths_info[n].path, 1)
        /\ \A q \in Routes(G, n, target_node) :
             RouteWeight(G, q, 1) >= paths_info[n].total_weight

(* a returned route of at least three nodes that beats a heavier alternative *)
C1_Witness ==
  /\ pc = "returned"
  /\ target_node \in Nodes(G)
  /\ \E n \in DOMAIN paths_info :
       /\ Len(paths_info[n].path) >= 3
       /\ \E q \in Routes(G, n, target_node) :
            RouteWeight(G, q, 1) > paths_info[n].total_weight

(* C2: a source with no path to the destination raises nothing: its entry   *)
(* has no route, an infinite total_weight and "No path found", and every    *)
(* other source still gets a minimum route and its weight.                  *)
C2_UnreachableIsolated ==
  /\ (pc = "aborted" /\ AllPositive(G)) => exc = "OSError"
  /\ (pc \in {"compute", "returned"} /\ AllPositive(G)) =>
       \A n \in DOMAIN paths_info :
         IF Routes(G, n, target_node) = {}
           THEN paths_info[n] = NoPathEntry(n, target_node)
           ELSE /\ paths_info[n].path \in MinRoutes(G, n, target_node)
                /\ paths_info[n].total_weight
                     = RouteWeight(G, paths_info[n].path, 1)
                /\ paths_info[n].path_description # "No path found"

(* a finished table with an unreachable source processed before a reachable *)
(* one                                                                      *)
C2_Witness ==
  /\ pc = "returned"
  /\ target_node \in Nodes(G)
  /\ \E i, j \in 1 .. Len(G.nodes) :
       /\ i < j
       /\ G.nodes[i] # target_node
       /\ G.nodes[j] # target_node
       /\ paths_info[G.nodes[i]].path = <<>>
       /\ Len(paths_info[G.nodes[j]].path) >= 2

(* C4: the returned table has exactly one entry for each node of the graph  *)
(* other than the destination and none for the destination; each entry's    *)
(* start is its key and its goal is the destination.                        *)
C4_TableKeys ==
  (Returned /\ target_node \in Nodes(G)) =>
    /\ DOMAIN paths_info = Nodes(G) \ {target_node}
    /\ \A n \in DOMAIN paths_info :
         paths_info[n].start = n /\ paths_info[n].goal = target_node

C4_Witness ==
  /\ pc = "returned"
  /\ target_node \in Nodes(G)
  /\ Cardinality(DOMAIN paths_info) >= 2

(* C3 as claimed: a destination that is not a node of the graph makes       *)
(* compute_shortest_paths fail, so no route table is ever returned for it.  *)
C3_UnknownNodeError == Returned => target_node \in Nodes(G)

(* C3 amended: with a destination that is not a node of the graph nothing   *)
(* is raised; the call returns a table with one entry per node of the       *)
(* graph, each with no route, infinite total_weight and "No path found",    *)
(* and the graph is left unchanged.                                         *)
C3_AllNoPath ==
  /\ [](target_node \notin Nodes(G) =>
          /\ pc = "aborted" => exc = "OSError"
          /\ Returned =>
               /\ DOMAIN paths_info = Nodes(G)
               /\ \A n \in Nodes(G) : paths_info[n] = NoPathEntry(n, target_node))
  /\ [][pc = "compute" => G' = G]_vars

C3_Witness ==
  /\ pc = "returned"
  /\ target_node \notin Nodes(G)
  /\ Cardinality(DOMAIN paths_info) >= 2
  /\ \E n \in Nodes(G) : Nbrs(G, n) # {}

UnknownIds(edges) ==
  {x \in NodeIds : /\ x \notin Range(node_positions)
                   /\ \E k \in 1 .. Len(edges) : edges[k][1] = x \/ edges[k][2] = x}

Built == pc \notin {"start", "add_edges"}

NonPositive(edges) == {k \in 1 .. Len(edges) : edges[k][3] <= 0}

C7_Symmetry ==
  (calls = 2 /\ pc = "returned") =>
    paths_info[other_node].total_weight = first_table[target_node].total_weight

C7_Witness ==
  /\ calls = 2
  /\ pc = "returned"
  /\ Len(paths_info[other_node].path) >= 3
  /\ paths_info[other_node].total_weight = first_table[target_node].total_weight

RECURSIVE WeightsAlong(_, _, _)
WeightsAlong(g, r, i) ==
  IF i >= Len(r) THEN <<>>
  ELSE <<EdgeWeight(g, r[i], r[i + 1])>> \o WeightsAlong(g, r, i + 1)

Count(ws, w) == Cardinality({i \in 1 .. Len(ws) : ws[i] = w})

RefRun == IsRef /\ target_node = 0 /\ pc = "returned"

(* C8 as claimed: in the reference topology with destination 0 some node's  *)
(* minimum route is one long edge plus two medium edges, reported with      *)
(* total distance 4 and a 4-node route.                                     *)
C8_LongPlusTwoMedium ==
  RefRun =>
    \E n \in DOMAIN paths_info :
      LET ws == WeightsAlong(G, paths_info[n].path, 1)
      IN  /\ paths_info[n].total_weight = Long + Medium + Medium
          /\ Len(paths_info[n].path) = 4
          /\ Count(ws, Long) = 1
          /\ Count(ws, Medium) = 2

(* C8 amended: in the reference topology with destination 0 no node is at   *)
(* distance 4; node 11 has a minimum route of one long, one medium and one  *)
(* short edge, reported with total distance 3.5 and a 4-node route.         *)
C8_LongMediumShort ==
  RefRun =>
    /\ \A n \in DOMAIN paths_info : paths_info[n].total_weight # Long + Medium + Medium
    /\ LET ws == WeightsAlong(G, paths_info[11].path, 1)
       IN  /\ paths_info[11].total_weight = Long + Medium + Short
           /\ Len(paths_info[11].path) = 4
           /\ Count(ws, Long) = 1
           /\ Count(ws, Medium) = 1
           /\ Count(ws, Short) = 1

C8_Witness ==
  /\ RefRun
  /\ 11 \in DOMAIN paths_info
  /\ paths_info[11].path[1] = 11
  /\ paths_info[11].path[4] = 0

(* C9 as claimed: in the reference topology with destination 0 every other  *)
(* node has exactly one minimum-weight route to the destination.            *)
C9_UniqueMinRoutes ==
  RefRun =>
    \A n \in Nodes(G) \ {0} : Cardinality(MinRoutes(G, n, 0)) = 1

(* C9 amended: in the reference topology with destination 0 only the nodes  *)
(* 1, 3, 4, 9 and 10 have exactly one minimum-weight route; 2, 5, 6, 7, 8   *)
(* and 11 have several, so the route the table holds for them (always one   *)
(* of their minimum routes) depends on how ties are broken.                 *)
C9_TiedMinRoutes ==
  RefRun =>
    /\ {n \in Nodes(G) \ {0} : Cardinality(MinRoutes(G, n, 0)) = 1} = {1, 3, 4, 9, 10}
    /\ \A n \in Nodes(G) \ {0} : paths_info[n].path \in MinRoutes(G, n, 0)

C9_Witness ==
  /\ RefRun
  /\ Cardinality(MinRoutes(G, 2, 0)) = 2
  /\ paths_info[2].path \in MinRoutes(G, 2, 0)

(* C10 as claimed: a failure of either external step, writing the output    *)
(* file or rendering, is caught and never aborts the run.                   *)
C10_NoAbortOnIOFailure ==
  (exc = "OSError" \/ render = "failed") => pc # "aborted"

(* C10 amended: the route table is computed before either external step and *)
(* neither step changes it; a rendering failure is caught and reported,     *)
(* comes after the document export and is followed by the completion        *)
(* message; a failure writing the output file is not caught and aborts the  *)
(* run before rendering.                                                    *)
C10_RenderFailureCaught ==
  /\ [](/\ pc \in {"save", "visualize", "complete", "done"} =>
             DOMAIN paths_info = Nodes(G) \ {target_node}
        /\ render = "failed" =>
             /\ pc \in {"complete", "done"}
             /\ yaml_file = YamlData(paths_info)
             /\ \E i \in 1 .. Len(console) : console[i] = "render error"
        /\ pc = "aborted" => render = "none" /\ yaml_file = NoFile)
  /\ [][(pc \in {"save", "visualize", "complete"}) => paths_info' = paths_info]_vars
  /\ (render = "failed" ~> pc = "done")

C10_Witness ==
  /\ pc = "done"
  /\ render = "failed"
  /\ yaml_file = YamlData(paths_info)
  /\ Cardinality(DOMAIN paths_info) >= 2

(* after the try/except around visualize_graph main goes on to its last    *)
(* prints: the program is sequential and nothing there waits               *)
FairSpec == Init /\ [][Next]_vars /\ WF_vars(Complete)

====
